---- MODULE Spec2Model ----
(***************************************************************************)
(* A model of package envcfg (src/envcfg.go): LoadFile/Load fill the       *)
(* fields of a structure from a .env file and then from the process        *)
(* environment.                                                            *)
(*                                                                         *)
(* Text is modelled as sequences of one-character strings, so that         *)
(* trimming, prefix tests, splitting and numeral parsing are computed on   *)
(* the characters, as the code computes them.  A structure type is a       *)
(* sequence of field records; a struct-typed field carries the sequence of *)
(* its own fields in "sub".  A field's storage is named by its path, the   *)
(* sequence of field indices leading to it from the caller's structure.    *)
(***************************************************************************)
EXTENDS Integers, Sequences, FiniteSets

VARIABLES
    pc,         \* position of the call
    validTarget,\* whether `to` is a non-nil pointer to a struct
    shape,      \* the type of the caller's structure
    target,     \* the caller's structure: leaf path -> value
    target0,    \* the structure as it was before the call (history)
    fileState,  \* "ok", "missing" or "denied": what os.Open / os.Stat meet
    fileLines,  \* the lines of the file at the path
    scanGood,   \* how many lines Scanner.Scan delivers before it returns false
    scanErr,    \* whether Scanner.Err() is non-nil once Scan has returned false
    environ,    \* os.Environ()
    fields,     \* the descriptor list built by parseStruct
    fileVars,   \* the mapping readSource built from the file
    envVars,    \* the mapping readSource built from the environment
    fileWrote,  \* descriptor positions written by the file pass (history)
    envWrote,   \* descriptor positions written by the environment pass (history)
    afterFile,  \* the structure as the file pass left it (history)
    passes,     \* the passes that have started (history)
    err,        \* the error loadFromFile returned, or NoErr
    result      \* what the call returned, or Pending

vars == <<pc, validTarget, shape, target, target0, fileState, fileLines,
          scanGood, scanErr, environ, fields, fileVars, envVars, fileWrote,
          envWrote, afterFile, passes, err, result>>

----------------------------------------------------------------------------
(* Text: package strings *)

WhiteSpace == {" ", "\t"}

Digits == {"0", "1", "2", "3", "4", "5", "6", "7", "8", "9"}

RECURSIVE TrimLeft(_)
TrimLeft(s) ==
    IF s # <<>> /\ Head(s) \in WhiteSpace THEN TrimLeft(Tail(s)) ELSE s

RECURSIVE TrimRight(_)
TrimRight(s) ==
    IF s # <<>> /\ s[Len(s)] \in WhiteSpace
    THEN TrimRight(SubSeq(s, 1, Len(s) - 1))
    ELSE s

\* strings.TrimSpace
TrimSpace(s) == TrimRight(TrimLeft(s))

\* strings.HasPrefix
HasPrefix(s, p) == Len(s) >= Len(p) /\ SubSeq(s, 1, Len(p)) = p

\* strings.Index for a one-character separator: 0 when it does not occur
RECURSIVE IndexFrom(_, _, _)
IndexFrom(s, c, i) ==
    IF i > Len(s) THEN 0
    ELSE IF s[i] = c THEN i
    ELSE IndexFrom(s, c, i + 1)

\* the index of the last occurrence
RECURSIVE LastIndexFrom(_, _, _)
LastIndexFrom(s, c, i) ==
    IF i < 1 THEN 0
    ELSE IF s[i] = c THEN i
    ELSE LastIndexFrom(s, c, i - 1)

\* SplitN2 with the cut at the last "=" instead of the first
SplitN2_AtLast(line) ==
    LET i == LastIndexFrom(line, "=", Len(line)) IN
    IF i = 0 THEN <<line>>
    ELSE <<SubSeq(line, 1, i - 1), SubSeq(line, i + 1, Len(line))>>

\* strings.SplitN(line, "=", 2): at most two parts, cut at the first "="
SplitN2(line) ==
    LET i == IndexFrom(line, "=", 1) IN
    IF i = 0 THEN <<line>>
    ELSE <<SubSeq(line, 1, i - 1), SubSeq(line, i + 1, Len(line))>>

----------------------------------------------------------------------------
(* Errors *)

NoErr == [kind |-> "nil"]
Pending == [kind |-> "pending"]
ErrTarget == [kind |-> "target must be a pointer to struct"]
ErrGetwd == [kind |-> "getwd"]
ErrOpen(state) == [kind |-> "open", why |-> state]
ErrLine(line) == [kind |-> "malformed", line |-> line]
ErrCoerce(kind, value) == [kind |-> "coercion", field |-> kind, value |-> value]
ErrKind(kind) == [kind |-> "unsupported", field |-> kind]

----------------------------------------------------------------------------
(* readSource: the line grammar *)

EmptyVars == [k \in {} |-> <<>>]

Put(m, key, value) ==
    [k \in DOMAIN m \cup {key} |-> IF k = key THEN value ELSE m[k]]

\* the loop of readSource from line i on, with the mapping built so far
RECURSIVE readLines(_, _, _)
readLines(lines, i, m) ==
    IF i > Len(lines) THEN [vars |-> m, err |-> NoErr]
    ELSE LET line == TrimSpace(lines[i]) IN
         IF Len(line) = 0 \/ HasPrefix(line, <<"#">>)
         THEN readLines(lines, i + 1, m)
         ELSE LET tokens == SplitN2(line) IN
              IF Len(tokens) # 2
              THEN [vars |-> EmptyVars, err |-> ErrLine(line)]
              ELSE readLines(lines, i + 1,
                             Put(m, TrimSpace(tokens[1]), TrimSpace(tokens[2])))

readSource(lines) == readLines(lines, 1, EmptyVars)

----------------------------------------------------------------------------
(* setValue: coercion of a string to the field's kind *)

SignedKinds == {"int8", "int16", "int"}
UnsignedKinds == {"uint8", "uint16", "uint"}

\* 2^(width of the kind); 0 stands for the 64 bits of int, uint, which no
\* numeral of the model reaches
Modulus(kind) ==
    CASE kind \in {"int8", "uint8"} -> 256
      [] kind \in {"int16", "uint16"} -> 65536
      [] OTHER -> 0

DigitValue(c) ==
    CASE c = "0" -> 0 [] c = "1" -> 1 [] c = "2" -> 2 [] c = "3" -> 3
      [] c = "4" -> 4 [] c = "5" -> 5 [] c = "6" -> 6 [] c = "7" -> 7
      [] c = "8" -> 8 [] c = "9" -> 9

RECURSIVE Horner(_, _)
Horner(ds, acc) ==
    IF ds = <<>> THEN acc ELSE Horner(Tail(ds), acc * 10 + DigitValue(Head(ds)))

AllDigits(s) == s # <<>> /\ \A i \in 1..Len(s) : s[i] \in Digits

\* strconv.ParseUint(value, 10, 64).  The numerals of the model have at most
\* five digits, so the range error of bit size 64 does not arise.
ParseUint(s) ==
    IF AllDigits(s) THEN [ok |-> TRUE, v |-> Horner(s, 0)]
    ELSE [ok |-> FALSE, v |-> 0]

\* strconv.ParseInt(value, 10, 64): an optional sign, then digits
ParseInt(s) ==
    IF s # <<>> /\ Head(s) \in {"+", "-"}
    THEN LET u == ParseUint(Tail(s)) IN
         [ok |-> u.ok, v |-> IF Head(s) = "-" THEN 0 - u.v ELSE u.v]
    ELSE ParseUint(s)

\* strconv.ParseBool
ParseBool(s) ==
    IF s \in {<<"1">>, <<"t">>, <<"T">>, <<"t", "r", "u", "e">>,
              <<"T", "R", "U", "E">>, <<"T", "r", "u", "e">>}
    THEN [ok |-> TRUE, v |-> TRUE]
    ELSE IF s \in {<<"0">>, <<"f">>, <<"F">>, <<"f", "a", "l", "s", "e">>,
                   <<"F", "A", "L", "S", "E">>, <<"F", "a", "l", "s", "e">>}
    THEN [ok |-> TRUE, v |-> FALSE]
    ELSE [ok |-> FALSE, v |-> FALSE]

\* reflect.Value.SetInt on a field of the kind: the conversion intN(x)
SetInt(kind, i) ==
    LET m == Modulus(kind) IN
    IF m = 0 THEN i ELSE ((i + m \div 2) % m) - m \div 2

\* reflect.Value.SetUint on a field of the kind: the conversion uintN(x)
SetUint(kind, u) ==
    LET m == Modulus(kind) IN
    IF m = 0 THEN u ELSE u % m

\* setValue(field, value): the error, and the value the field then holds.
\* The floating-point kinds are left out: no structure of the model has a
\* field of them.
setValue(kind, old, value) ==
    CASE kind = "bool" ->
            LET b == ParseBool(value) IN
            IF b.ok THEN [err |-> NoErr, v |-> b.v]
            ELSE [err |-> ErrCoerce(kind, value), v |-> old]
      [] kind \in SignedKinds ->
            LET i == ParseInt(value) IN
            IF i.ok THEN [err |-> NoErr, v |-> SetInt(kind, i.v)]
            ELSE [err |-> ErrCoerce(kind, value), v |-> old]
      [] kind \in UnsignedKinds ->
            LET u == ParseUint(value) IN
            IF u.ok THEN [err |-> NoErr, v |-> SetUint(kind, u.v)]
            ELSE [err |-> ErrCoerce(kind, value), v |-> old]
      [] kind = "string" -> [err |-> NoErr, v |-> value]
      [] OTHER -> [err |-> ErrKind(kind), v |-> old]

----------------------------------------------------------------------------
(* Structures and parseStruct *)

Leaf(name, exported, tag, kind, def) ==
    [name |-> name, exported |-> exported, tag |-> tag, kind |-> kind,
     sub |-> <<>>, def |-> def]

Struct(name, exported, tag, sub) ==
    [name |-> name, exported |-> exported, tag |-> tag, kind |-> "struct",
     sub |-> sub, def |-> <<>>]

\* the field a path leads to
RECURSIVE FieldAt(_, _)
FieldAt(st, path) ==
    IF Len(path) = 1 THEN st[path[1]]
    ELSE FieldAt(st[path[1]].sub, Tail(path))

\* the paths of every field of the structure, struct-typed fields included
RECURSIVE AllPaths(_, _)
AllPaths(st, prefix) ==
    UNION {LET p == Append(prefix, i) IN
           IF st[i].kind = "struct" THEN {p} \cup AllPaths(st[i].sub, p)
           ELSE {p} : i \in 1..Len(st)}

LeafPaths(st) == {p \in AllPaths(st, <<>>) : FieldAt(st, p).kind # "struct"}

\* the structure as constructed by the caller: every leaf at its default
Defaults(st) == [p \in LeafPaths(st) |-> FieldAt(st, p).def]

\* parseFrom without the test of the field's visibility
RECURSIVE parseFrom_Unexported(_, _, _)
parseFrom_Unexported(st, i, prefix) ==
    IF i > Len(st) THEN <<>>
    ELSE LET refField == st[i]
             rest == parseFrom_Unexported(st, i + 1, prefix)
         IN
         IF refField.kind = "struct"
         THEN parseFrom_Unexported(refField.sub, 1, Append(prefix, i)) \o rest
         ELSE IF refField.tag = <<>> THEN rest
         ELSE <<[Name |-> refField.tag, Value |-> Append(prefix, i)]>> \o rest

\* parseFrom with the descriptors of a nested structure put after those of
\* the fields that follow it
RECURSIVE parseFrom_NestedLast(_, _, _)
parseFrom_NestedLast(st, i, prefix) ==
    IF i > Len(st) THEN <<>>
    ELSE LET refField == st[i]
             rest == parseFrom_NestedLast(st, i + 1, prefix)
         IN
         IF ~refField.exported THEN rest
         ELSE IF refField.kind = "struct"
         THEN rest \o parseFrom_NestedLast(refField.sub, 1, Append(prefix, i))
         ELSE IF refField.tag = <<>> THEN rest
         ELSE <<[Name |-> refField.tag, Value |-> Append(prefix, i)]>> \o rest

\* the loop of parseStruct from field i on; prefix is the path of st
RECURSIVE parseFrom(_, _, _)
parseFrom(st, i, prefix) ==
    IF i > Len(st) THEN <<>>
    ELSE LET refField == st[i]
             rest == parseFrom(st, i + 1, prefix)
         IN
         IF ~refField.exported THEN rest
         ELSE IF refField.kind = "struct"
         THEN parseFrom(refField.sub, 1, Append(prefix, i)) \o rest
         ELSE IF refField.tag = <<>> THEN rest
         ELSE <<[Name |-> refField.tag, Value |-> Append(prefix, i)]>> \o rest

parseStruct(st) == parseFrom(st, 1, <<>>)

----------------------------------------------------------------------------
(* loadFromSource: the binding loop *)

\* bindFrom that goes on to the later descriptors after a failed coercion
\* and returns the first error at the end
RECURSIVE bindFrom_GoOn(_, _, _, _, _, _)
bindFrom_GoOn(st, fs, i, tgt, m, wrote) ==
    IF i > Len(fs) THEN [target |-> tgt, err |-> NoErr, wrote |-> wrote]
    ELSE LET field == fs[i] IN
         IF field.Name \in DOMAIN m
         THEN LET r == setValue(FieldAt(st, field.Value).kind,
                                tgt[field.Value], m[field.Name])
              IN
              IF r.err.kind # "nil"
              THEN LET later == bindFrom_GoOn(st, fs, i + 1, tgt, m, wrote) IN
                   [target |-> later.target, err |-> r.err,
                    wrote |-> later.wrote]
              ELSE bindFrom_GoOn(st, fs, i + 1,
                                 [tgt EXCEPT ![field.Value] = r.v], m,
                                 wrote \cup {i})
         ELSE bindFrom_GoOn(st, fs, i + 1, tgt, m, wrote)

\* the loop over the descriptors from position i on
RECURSIVE bindFrom(_, _, _, _, _, _)
bindFrom(st, fs, i, tgt, m, wrote) ==
    IF i > Len(fs) THEN [target |-> tgt, err |-> NoErr, wrote |-> wrote]
    ELSE LET field == fs[i] IN
         IF field.Name \in DOMAIN m
         THEN LET r == setValue(FieldAt(st, field.Value).kind,
                                tgt[field.Value], m[field.Name])
              IN
              IF r.err.kind # "nil"
              THEN [target |-> tgt, err |-> r.err, wrote |-> wrote]
              ELSE bindFrom(st, fs, i + 1,
                            [tgt EXCEPT ![field.Value] = r.v], m,
                            wrote \cup {i})
         ELSE bindFrom(st, fs, i + 1, tgt, m, wrote)

bindFields(st, fs, tgt, m) == bindFrom(st, fs, 1, tgt, m, {})

\* loadFromSource: readSource, then the binding loop
loadFromSource(st, fs, tgt, lines) ==
    LET r == readSource(lines) IN
    IF r.err.kind # "nil"
    THEN [target |-> tgt, err |-> r.err, wrote |-> {}]
    ELSE bindFields(st, fs, tgt, r.vars)

\* the lines scannerIter delivers: Scan returns false at the end of the file
\* or at a read failure, and Next is called only after Scan returned true
Delivered(lines, good) == SubSeq(lines, 1, good)

\* bufio.ScanLines, the split function of bufio.NewScanner: the text up to
\* each newline without a trailing carriage return, and a last line that no
\* newline ends unless it is empty
RECURSIVE ScanLines(_)
ScanLines(buf) ==
    LET i == IndexFrom(buf, "\n", 1)
        dropCR(l) == IF l # <<>> /\ l[Len(l)] = "\r"
                     THEN SubSeq(l, 1, Len(l) - 1) ELSE l
    IN
    IF buf = <<>> THEN <<>>
    ELSE IF i = 0 THEN <<dropCR(buf)>>
    ELSE <<dropCR(SubSeq(buf, 1, i - 1))>> \o ScanLines(SubSeq(buf, i + 1, Len(buf)))

----------------------------------------------------------------------------
(* The call *)

\* Load: the file is .env in the working directory
Load ==
    /\ pc = "call"
    /\ \E getwdOK \in BOOLEAN :
          IF getwdOK
          THEN pc' = "loadfile" /\ result' = result
          ELSE pc' = "done" /\ result' = ErrGetwd
    /\ UNCHANGED <<validTarget, shape, target, target0, fileState, fileLines,
                   scanGood, scanErr, environ, fields, fileVars, envVars,
                   fileWrote, envWrote, afterFile, passes, err>>

\* LoadFile up to the call of loadFromFile
LoadFile ==
    /\ pc \in {"call", "loadfile"}
    /\ IF validTarget
       THEN /\ fields' = parseStruct(shape)
            /\ pc' = "open"
            /\ result' = result
       ELSE /\ fields' = fields
            /\ pc' = "done"
            /\ result' = ErrTarget
    /\ UNCHANGED <<validTarget, shape, target, target0, fileState, fileLines,
                   scanGood, scanErr, environ, fileVars, envVars, fileWrote,
                   envWrote, afterFile, passes, err>>

\* loadFromFile: os.Open
OpenFile ==
    /\ pc = "open"
    /\ passes' = passes \cup {"file"}
    /\ IF fileState = "ok"
       THEN pc' = "fileRead" /\ err' = err
       ELSE pc' = "stat" /\ err' = ErrOpen(fileState)
    /\ UNCHANGED <<validTarget, shape, target, target0, fileState, fileLines,
                   scanGood, scanErr, environ, fields, fileVars, envVars,
                   fileWrote, envWrote, afterFile, result>>

\* loadFromSource on the file: readSource
ReadFile ==
    /\ pc = "fileRead"
    /\ LET r == readSource(Delivered(fileLines, scanGood)) IN
       IF r.err.kind # "nil"
       THEN pc' = "stat" /\ err' = r.err /\ fileVars' = fileVars
       ELSE pc' = "fileBind" /\ err' = err /\ fileVars' = r.vars
    /\ UNCHANGED <<validTarget, shape, target, target0, fileState, fileLines,
                   scanGood, scanErr, environ, fields, envVars, fileWrote,
                   envWrote, afterFile, passes, result>>

\* loadFromSource on the file: the binding loop
BindFile ==
    /\ pc = "fileBind"
    /\ LET r == bindFields(shape, fields, target, fileVars) IN
       /\ target' = r.target
       /\ fileWrote' = r.wrote
       /\ afterFile' = r.target
       /\ IF r.err.kind # "nil"
          THEN pc' = "stat" /\ err' = r.err
          ELSE pc' = "envRead" /\ err' = err
    /\ UNCHANGED <<validTarget, shape, target0, fileState, fileLines, scanGood,
                   scanErr, environ, fields, fileVars, envVars, envWrote,
                   passes, result>>

\* StatFile that returns every error of loadFromFile
StatFile_NoSkip ==
    /\ pc = "stat"
    /\ pc' = "done"
    /\ result' = err
    /\ UNCHANGED <<validTarget, shape, target, target0, fileState, fileLines,
                   scanGood, scanErr, environ, fields, fileVars, envVars,
                   fileWrote, envWrote, afterFile, passes, err>>

\* LoadFile: an error of loadFromFile is dropped when os.Stat says the file
\* does not exist, and returned otherwise
StatFile ==
    /\ pc = "stat"
    /\ IF fileState = "missing"
       THEN pc' = "envRead" /\ result' = result
       ELSE pc' = "done" /\ result' = err
    /\ UNCHANGED <<validTarget, shape, target, target0, fileState, fileLines,
                   scanGood, scanErr, environ, fields, fileVars, envVars,
                   fileWrote, envWrote, afterFile, passes, err>>

\* loadFromEnv: os.Environ and readSource
ReadEnv ==
    /\ pc = "envRead"
    /\ passes' = passes \cup {"env"}
    /\ LET r == readSource(environ) IN
       IF r.err.kind # "nil"
       THEN pc' = "done" /\ result' = r.err /\ envVars' = envVars
       ELSE pc' = "envBind" /\ result' = result /\ envVars' = r.vars
    /\ UNCHANGED <<validTarget, shape, target, target0, fileState, fileLines,
                   scanGood, scanErr, environ, fields, fileVars, fileWrote,
                   envWrote, afterFile, err>>

\* BindEnv that leaves alone the keys the file gave
BindEnv_FileWins ==
    /\ pc = "envBind"
    /\ LET kept == [k \in DOMAIN envVars \ DOMAIN fileVars |-> envVars[k]]
           r == bindFields(shape, fields, target, kept)
       IN
       /\ target' = r.target
       /\ envWrote' = r.wrote
       /\ result' = r.err
    /\ pc' = "done"
    /\ UNCHANGED <<validTarget, shape, target0, fileState, fileLines, scanGood,
                   scanErr, environ, fields, fileVars, envVars, fileWrote,
                   afterFile, passes, err>>

\* loadFromEnv: the binding loop, and the return of LoadFile
BindEnv ==
    /\ pc = "envBind"
    /\ LET r == bindFields(shape, fields, target, envVars) IN
       /\ target' = r.target
       /\ envWrote' = r.wrote
       /\ result' = r.err
    /\ pc' = "done"
    /\ UNCHANGED <<validTarget, shape, target0, fileState, fileLines, scanGood,
                   scanErr, environ, fields, fileVars, envVars, fileWrote,
                   afterFile, passes, err>>

Next ==
    \/ Load
    \/ LoadFile
    \/ OpenFile
    \/ ReadFile
    \/ BindFile
    \/ StatFile
    \/ ReadEnv
    \/ BindEnv

----------------------------------------------------------------------------
(* Inputs of LoadFile *)

MaxFileLines == 2
MaxEnvLines == 2

SeqsUpTo(S, n) == UNION {[1..k -> S] : k \in 0..n}

\* the configuration structure of the tests: every field bound
ShapeCfg ==
    <<Leaf("BoolField", TRUE, <<"B">>, "bool", FALSE),
      Leaf("IntField", TRUE, <<"I">>, "int8", 3),
      Leaf("UIntField", TRUE, <<"U">>, "uint8", 4),
      Leaf("StringField", TRUE, <<"S">>, "string", <<"d">>)>>

\* nested structures, with unexported and untagged fields at every level
ShapeNested ==
    <<Leaf("Field", TRUE, <<"B">>, "bool", FALSE),
      Struct("More", TRUE, <<"S">>,
             <<Leaf("Field", TRUE, <<"I">>, "int8", 3),
               Leaf("hidden", FALSE, <<"S">>, "string", <<"d">>),
               Struct("Deep", TRUE, <<>>,
                      <<Leaf("Z", TRUE, <<"S">>, "string", <<"d">>),
                        Leaf("Plain", TRUE, <<>>, "int8", 3)>>)>>),
      Struct("inner", FALSE, <<>>,
             <<Leaf("X", TRUE, <<"S">>, "string", <<"d">>)>>),
      Leaf("Last", TRUE, <<"U">>, "uint8", 4)>>

\* a field of an unsupported kind, and one key on two fields
ShapeMixed ==
    <<Leaf("StringField", TRUE, <<"S">>, "string", <<"d">>),
      Leaf("Pointer", TRUE, <<"B">>, "ptr", "nil"),
      Leaf("Small", TRUE, <<"I">>, "int8", 3),
      Leaf("Wide", TRUE, <<"I">>, "int16", 3)>>

Shapes == {ShapeCfg, ShapeNested, ShapeMixed}

FileLinePool ==
    {<<"B", "=", "1">>,
     <<" ", "I", " ", "=", " ", "5", " ">>,
     <<"I", "=", "x">>,
     <<"S", "=", "f">>,
     <<"b", "a", "d">>}

EnvLinePool ==
    {<<"I", "=", "7">>,
     <<"S", "=", "e">>,
     <<"U", "=", "x">>,
     <<"o", "o", "p", "s">>}

\* the file at the path: absent, unreadable, or readable with a scan that
\* ends at the end of the file or fails after `good` lines
FileConfigs ==
    {[state |-> s, lines |-> <<>>, good |-> 0, err |-> FALSE] :
        s \in {"missing", "denied"}}
    \cup
    {c \in [state : {"ok"}, lines : SeqsUpTo(FileLinePool, MaxFileLines),
            good : 0..MaxFileLines, err : BOOLEAN] :
        /\ c.good <= Len(c.lines)
        /\ ~c.err => c.good = Len(c.lines)}

InitCall(valid, st, file, env) ==
    /\ pc = "call"
    /\ validTarget = valid
    /\ shape = st
    /\ target = Defaults(st)
    /\ target0 = Defaults(st)
    /\ fileState = file.state
    /\ fileLines = file.lines
    /\ scanGood = file.good
    /\ scanErr = file.err
    /\ environ = env
    /\ fields = <<>>
    /\ fileVars = EmptyVars
    /\ envVars = EmptyVars
    /\ fileWrote = {}
    /\ envWrote = {}
    /\ afterFile = Defaults(st)
    /\ passes = {}
    /\ err = NoErr
    /\ result = Pending

Init ==
    \/ \E st \in Shapes, file \in FileConfigs,
          env \in SeqsUpTo(EnvLinePool, MaxEnvLines) :
          InitCall(TRUE, st, file, env)
    \/ InitCall(FALSE, ShapeCfg, [state |-> "missing", lines |-> <<>>,
                                  good |-> 0, err |-> FALSE], <<>>)

Spec == Init /\ [][Next]_vars

----------------------------------------------------------------------------
(* Vocabulary of the properties, stated on the characters and on the      *)
(* structure type, not through the operators of the code                  *)

\* s[a..b] is s without its leading and trailing white space
IsTrimOf(a, b, s) ==
    /\ \A i \in 1..Len(s) : (i < a \/ i > b) => s[i] \in WhiteSpace
    /\ IF a <= b
       THEN s[a] \notin WhiteSpace /\ s[b] \notin WhiteSpace
       ELSE a = 1 /\ b = 0

Trimmed(s) ==
    LET ab == CHOOSE ab \in (1..Len(s) + 1) \X (0..Len(s)) :
                  IsTrimOf(ab[1], ab[2], s)
    IN SubSeq(s, ab[1], ab[2])

\* a line that is neither blank nor a comment
IsEntry(line) == Trimmed(line) # <<>> /\ Trimmed(line)[1] # "#"

\* an entry line without "="
Malformed(line) ==
    IsEntry(line) /\ \A i \in 1..Len(line) : line[i] # "="

FirstEq(t) ==
    CHOOSE p \in 1..Len(t) : t[p] = "=" /\ \A q \in 1..p - 1 : t[q] # "="

KeyOf(line) ==
    LET t == Trimmed(line) IN Trimmed(SubSeq(t, 1, FirstEq(t) - 1))

ValueOf(line) ==
    LET t == Trimmed(line) IN Trimmed(SubSeq(t, FirstEq(t) + 1, Len(t)))

\* a field that has a descriptor: a tagged leaf reached through exported
\* fields only
Bindable(st, p) ==
    /\ FieldAt(st, p).kind # "struct"
    /\ FieldAt(st, p).tag # <<>>
    /\ \A n \in 1..Len(p) : FieldAt(st, SubSeq(p, 1, n)).exported

IsPrefix(p, q) == Len(p) <= Len(q) /\ SubSeq(q, 1, Len(p)) = p

\* depth-first declaration order of two leaves
Before(p, q) ==
    \E n \in 1..Len(p) :
        /\ n <= Len(q)
        /\ SubSeq(p, 1, n - 1) = SubSeq(q, 1, n - 1)
        /\ p[n] < q[n]

\* the value a field of the kind holds once the string has been stored
Coerced(kind, value) == setValue(kind, <<>>, value).v

Returned == pc = "done"
Succeeded == pc = "done" /\ result.kind = "nil"
\* the call got as far as the file pass
Entered == pc \notin {"call", "loadfile"} /\ validTarget /\ result.kind # "getwd"
FilePassOver == pc \in {"stat", "envRead", "envBind", "done"} /\ Entered

----------------------------------------------------------------------------
\* C1: after a successful LoadFile every bound field holds the coerced value
\* of its key in the environment mapping if the key is there, else the
\* coerced value of its key in the file mapping if the key is there, else
\* its value from before the call.
C1_Precedence ==
    Succeeded =>
        \A p \in LeafPaths(shape) :
            Bindable(shape, p) =>
                LET f == FieldAt(shape, p) IN
                IF f.tag \in DOMAIN envVars
                THEN target[p] = Coerced(f.kind, envVars[f.tag])
                ELSE IF f.tag \in DOMAIN fileVars
                THEN target[p] = Coerced(f.kind, fileVars[f.tag])
                ELSE target[p] = target0[p]

\* a successful call with a key in both sources, a key in the file alone
\* and a key in neither
C1_Witness ==
    /\ Succeeded
    /\ \E p \in LeafPaths(shape) :
          /\ Bindable(shape, p)
          /\ FieldAt(shape, p).tag \in DOMAIN envVars \cap DOMAIN fileVars
          /\ Coerced(FieldAt(shape, p).kind, envVars[FieldAt(shape, p).tag])
                # Coerced(FieldAt(shape, p).kind, fileVars[FieldAt(shape, p).tag])
    /\ \E p \in LeafPaths(shape) :
          /\ Bindable(shape, p)
          /\ FieldAt(shape, p).tag \in DOMAIN fileVars \ DOMAIN envVars
          /\ target[p] # target0[p]
    /\ \E p \in LeafPaths(shape) :
          /\ Bindable(shape, p)
          /\ FieldAt(shape, p).tag \notin DOMAIN fileVars \cup DOMAIN envVars

\* C2: a file that does not exist is no error: the file pass contributes no
\* entry and writes no field, and the environment pass runs and binds as it
\* would on the structure the caller passed.
C2_MissingFile ==
    (fileState = "missing" /\ validTarget) =>
        /\ result.kind # "open"
        /\ fileVars = EmptyVars
        /\ fileWrote = {}
        /\ afterFile = target0
        /\ (Returned /\ result.kind # "getwd") => "env" \in passes
        /\ (Returned /\ "env" \in passes) =>
              LET r == loadFromSource(shape, fields, target0, environ) IN
              result = r.err /\ target = r.target /\ envWrote = r.wrote
        /\ Succeeded =>
              \A p \in LeafPaths(shape) :
                  (Bindable(shape, p) /\ FieldAt(shape, p).tag \in DOMAIN envVars)
                      => target[p] = Coerced(FieldAt(shape, p).kind,
                                             envVars[FieldAt(shape, p).tag])

C2_Witness ==
    /\ fileState = "missing"
    /\ Succeeded
    /\ envWrote # {}

\* C3: when the file exists and holds an entry line without "=", LoadFile
\* returns the malformed-line error and the environment pass never runs.
C3_MalformedFileFails ==
    (Returned /\ Entered /\ fileState = "ok"
       /\ \E i \in 1..Len(fileLines) : Malformed(fileLines[i]))
        => /\ result.kind = "malformed"
           /\ "env" \notin passes
           /\ envWrote = {}

\* C4: a failure to open the file other than its absence, or a failure while
\* the file is read, makes LoadFile return an error without running the
\* environment pass; a read failure is never reported as success.
C4_ReadFailureSurfaces ==
    (Returned /\ Entered /\ (fileState = "denied" \/ scanErr))
        => /\ result.kind # "nil"
           /\ "env" \notin passes
           /\ envWrote = {}

\* C6 as stated: an unexported field, and an exported field whose tag is
\* absent or empty, holds after the call the value it held before.
C6_UnboundUntouched ==
    \A p \in AllPaths(shape, <<>>) :
        (~FieldAt(shape, p).exported \/ FieldAt(shape, p).tag = <<>>)
            => \A q \in LeafPaths(shape) :
                   IsPrefix(p, q) => target[q] = target0[q]

\* C6, amended: an unexported field, and an exported field that is not
\* struct-typed and whose tag is absent or empty, holds after the call the
\* value it held before, whatever the sources contain.
C6_UnboundLeafUntouched ==
    \A p \in AllPaths(shape, <<>>) :
        (\/ ~FieldAt(shape, p).exported
         \/ FieldAt(shape, p).tag = <<>> /\ FieldAt(shape, p).kind # "struct")
            => \A q \in LeafPaths(shape) :
                   IsPrefix(p, q) => target[q] = target0[q]

\* a successful call that wrote a field, with an unexported tagged leaf
\* whose key is in both sources
C6_Witness ==
    /\ Succeeded
    /\ envWrote # {}
    /\ fileWrote # {}
    /\ \E p \in LeafPaths(shape) :
          /\ ~FieldAt(shape, p).exported
          /\ FieldAt(shape, p).tag \in DOMAIN envVars \cap DOMAIN fileVars

\* C7: parseStruct returns the descriptors of the tagged leaves reached
\* through exported fields, in depth-first declaration order, each naming
\* its leaf in the caller's structure, a struct-typed field giving none of
\* its own; a nested leaf is bound from the sources as a top-level one is.
C7_Descriptors ==
    Entered =>
        /\ \A i \in 1..Len(fields) :
              /\ fields[i].Value \in LeafPaths(shape)
              /\ Bindable(shape, fields[i].Value)
              /\ fields[i].Name = FieldAt(shape, fields[i].Value).tag
        /\ \A p \in LeafPaths(shape) :
              Bindable(shape, p) => \E i \in 1..Len(fields) : fields[i].Value = p
        /\ \A i, j \in 1..Len(fields) :
              i < j => Before(fields[i].Value, fields[j].Value)
        /\ Succeeded =>
              \A i \in 1..Len(fields) :
                  LET p == fields[i].Value
                      f == FieldAt(shape, p)
                  IN
                  Len(p) > 1 =>
                      IF f.tag \in DOMAIN envVars
                      THEN target[p] = Coerced(f.kind, envVars[f.tag])
                      ELSE IF f.tag \in DOMAIN fileVars
                      THEN target[p] = Coerced(f.kind, fileVars[f.tag])
                      ELSE target[p] = target0[p]

\* a successful call on a structure nested two deep, whose nested leaves
\* were written, followed in the list by a top-level field
C7_Witness ==
    /\ Succeeded
    /\ \E i, j, k \in 1..Len(fields) :
          /\ i < j /\ j < k
          /\ Len(fields[i].Value) = 2 /\ i \in fileWrote
          /\ Len(fields[j].Value) = 3 /\ j \in envWrote
          /\ Len(fields[k].Value) = 1

\* the first descriptor whose key is in the mapping and whose value does not
\* coerce to its field (0: none)
Fails(m, i) ==
    /\ fields[i].Name \in DOMAIN m
    /\ LET kind == FieldAt(shape, fields[i].Value).kind IN
       \/ kind \notin {"bool", "string"} \cup SignedKinds \cup UnsignedKinds
       \/ kind = "bool" /\ ~ParseBool(m[fields[i].Name]).ok
       \/ kind \in SignedKinds /\ ~ParseInt(m[fields[i].Name]).ok
       \/ kind \in UnsignedKinds /\ ~ParseUint(m[fields[i].Name]).ok

FirstFailure(m) ==
    IF \E i \in 1..Len(fields) : Fails(m, i)
    THEN CHOOSE i \in 1..Len(fields) :
            Fails(m, i) /\ \A j \in 1..i - 1 : ~Fails(m, j)
    ELSE 0

\* what a pass that fails at descriptor i leaves: from `before` to `after`
StoppedAt(m, i, before, after, wrote, e) ==
    /\ e.kind \in {"coercion", "unsupported"}
    /\ e.field = FieldAt(shape, fields[i].Value).kind
    /\ wrote = {j \in 1..i - 1 : fields[j].Name \in DOMAIN m}
    /\ \A j \in 1..Len(fields) :
          LET p == fields[j].Value IN
          IF j < i /\ fields[j].Name \in DOMAIN m
          THEN after[p] = Coerced(FieldAt(shape, p).kind, m[fields[j].Name])
          ELSE after[p] = before[p]

\* C9: when the value of a present key does not coerce (or the kind is
\* unsupported) at descriptor i, the call returns that error at once: the
\* earlier descriptors with present keys keep what the pass wrote, i and the
\* later ones are not written in the pass, and after a failing file pass the
\* environment pass does not run.
C9_ShortCircuit ==
    /\ (FilePassOver /\ FirstFailure(fileVars) # 0) =>
          /\ StoppedAt(fileVars, FirstFailure(fileVars), target0, afterFile,
                       fileWrote, err)
          /\ "env" \notin passes
          /\ target = afterFile
          /\ Returned => result = err
    /\ (Returned /\ FirstFailure(envVars) # 0) =>
          /\ StoppedAt(envVars, FirstFailure(envVars), afterFile, target,
                       envWrote, result)

\* a file pass that fails after it wrote a field, with a later key present
C9_Witness ==
    /\ Returned
    /\ FirstFailure(fileVars) > 1
    /\ fileWrote # {}
    /\ \E j \in 1..Len(fields) :
          j > FirstFailure(fileVars) /\ fields[j].Name \in DOMAIN fileVars

\* an environment pass that fails after it wrote a field
C9_WitnessEnv ==
    /\ Returned
    /\ FirstFailure(envVars) > 1
    /\ envWrote # {}
    /\ fileWrote # {}

\* C10: a source with a malformed line has none of its entries bound: the
\* pass writes no field, also for keys on well-formed lines before the
\* malformed one, and a call that fails with the malformed-line error of the
\* file leaves every field as it was.
C10_MalformedWritesNothing ==
    /\ (fileState = "ok" /\ \E i \in 1..Len(fileLines) : Malformed(fileLines[i]))
          => fileWrote = {} /\ afterFile = target0
    /\ (\E i \in 1..Len(environ) : Malformed(environ[i]))
          => envWrote = {} /\ (Returned => target = afterFile)
    /\ (Returned /\ result.kind = "malformed" /\ "env" \notin passes)
          => target = target0

----------------------------------------------------------------------------
(* readSource on every short text: the sources are the line sequences of  *)
(* the texts of at most MaxText characters, read as the file or as the    *)
(* environment                                                            *)

MaxText == 6

TextAlphabet == {" ", "=", "#", "k", "\n"}

Sources == {ScanLines(b) : b \in SeqsUpTo(TextAlphabet, MaxText)}

InitParse ==
    \E lines \in Sources, from \in {"file", "env"} :
        /\ pc = IF from = "file" THEN "fileRead" ELSE "envRead"
        /\ validTarget = TRUE
        /\ shape = ShapeCfg
        /\ target = Defaults(ShapeCfg)
        /\ target0 = Defaults(ShapeCfg)
        /\ fileState = "ok"
        /\ fileLines = IF from = "file" THEN lines ELSE <<>>
        /\ scanGood = IF from = "file" THEN Len(lines) ELSE 0
        /\ scanErr = FALSE
        /\ environ = IF from = "env" THEN lines ELSE <<>>
        /\ fields = parseStruct(ShapeCfg)
        /\ fileVars = EmptyVars
        /\ envVars = EmptyVars
        /\ fileWrote = {}
        /\ envWrote = {}
        /\ afterFile = Defaults(ShapeCfg)
        /\ passes = IF from = "file" THEN {"file"} ELSE {}
        /\ err = NoErr
        /\ result = Pending

NextParse ==
    \/ ReadFile
    \/ ReadEnv

SpecParse == InitParse /\ [][NextParse]_vars

\* the mapping the line grammar gives to a source without malformed line
FollowsGrammar(lines, m) ==
    /\ DOMAIN m = {KeyOf(lines[i]) : i \in {j \in 1..Len(lines) : IsEntry(lines[j])}}
    /\ \A k \in DOMAIN m :
          \E i \in 1..Len(lines) :
              /\ IsEntry(lines[i])
              /\ KeyOf(lines[i]) = k
              /\ m[k] = ValueOf(lines[i])
              /\ \A j \in i + 1..Len(lines) :
                    IsEntry(lines[j]) => KeyOf(lines[j]) # k

\* the error of a source with a malformed line: its first one, trimmed
FirstMalformed(lines, e) ==
    \E i \in 1..Len(lines) :
        /\ Malformed(lines[i])
        /\ \A j \in 1..i - 1 : ~Malformed(lines[j])
        /\ e = ErrLine(Trimmed(lines[i]))

AnyMalformed(lines) == \E i \in 1..Len(lines) : Malformed(lines[i])

\* C5: readSource returns the mapping of the line grammar, for the file and
\* for the environment alike: lines are trimmed, blank lines and lines that
\* start with "#" give nothing, an entry is cut at its first "=" only, key
\* and value are trimmed, and the last line of a key gives its value.
C5_LineGrammar ==
    /\ pc = "fileBind" =>
          ~AnyMalformed(fileLines) /\ FollowsGrammar(fileLines, fileVars)
    /\ pc = "stat" => FirstMalformed(fileLines, err)
    /\ pc = "envBind" =>
          ~AnyMalformed(environ) /\ FollowsGrammar(environ, envVars)
    /\ pc = "done" => FirstMalformed(environ, result)

\* an environment of two entries for one key, the later value holding "="
\* and inner white space, kept
C5_Witness ==
    /\ pc = "envBind"
    /\ Len(environ) = 2
    /\ IsEntry(environ[1]) /\ IsEntry(environ[2])
    /\ KeyOf(environ[1]) = KeyOf(environ[2])
    /\ ValueOf(environ[1]) # ValueOf(environ[2])
    /\ \E k \in DOMAIN envVars :
          /\ envVars[k] = ValueOf(environ[2])
          /\ \E i \in 1..Len(envVars[k]) :
                \E j \in 1..Len(envVars[k]) :
                    envVars[k][i] = "=" /\ envVars[k][j] = " "

----------------------------------------------------------------------------
(* setValue on every kind: one bound field, and its key in the file       *)
(* mapping with a numeral at or next to the limits of the widths          *)

CoerceKinds == {"bool", "string", "ptr"} \cup SignedKinds \cup UnsignedKinds

CoerceValues ==
    {<<>>, <<"x">>, <<"t">>, <<"0">>, <<"1">>, <<"-", "1">>, <<"+", "5">>,
     <<"1", "2", "7">>, <<"1", "2", "8">>, <<"-", "1", "2", "8">>,
     <<"-", "1", "2", "9">>, <<"2", "5", "5">>, <<"2", "5", "6">>,
     <<"3", "0", "0">>, <<"3", "2", "7", "6", "7">>,
     <<"3", "2", "7", "6", "8">>, <<"-", "3", "2", "7", "6", "8">>,
     <<"-", "3", "2", "7", "6", "9">>, <<"6", "5", "5", "3", "5">>,
     <<"6", "5", "5", "3", "6">>, <<"7", "0", "0", "0", "0">>}

DefaultOf(kind) ==
    CASE kind = "bool" -> FALSE
      [] kind = "string" -> <<"d">>
      [] kind = "ptr" -> "nil"
      [] OTHER -> 3

InitCoerce ==
    \E kind \in CoerceKinds, value \in CoerceValues :
        LET st == <<Leaf("Field", TRUE, <<"K">>, kind, DefaultOf(kind))>> IN
        /\ pc = "fileBind"
        /\ validTarget = TRUE
        /\ shape = st
        /\ target = Defaults(st)
        /\ target0 = Defaults(st)
        /\ fileState = "ok"
        /\ fileLines = <<<<"K", "=">> \o value>>
        /\ scanGood = 1
        /\ scanErr = FALSE
        /\ environ = <<>>
        /\ fields = parseStruct(st)
        /\ fileVars = Put(EmptyVars, <<"K">>, value)
        /\ envVars = EmptyVars
        /\ fileWrote = {}
        /\ envWrote = {}
        /\ afterFile = Defaults(st)
        /\ passes = {"file"}
        /\ err = NoErr
        /\ result = Pending

NextCoerce == BindFile

SpecCoerce == InitCoerce /\ [][NextCoerce]_vars

\* the values a field of the kind can hold, for the kinds of 8 and 16 bits
InRange(kind, n) ==
    CASE kind = "int8" -> n \in -128..127
      [] kind = "int16" -> n \in -32768..32767
      [] kind = "uint8" -> n \in 0..255
      [] kind = "uint16" -> n \in 0..65535
      [] OTHER -> TRUE

\* C8: a base-10 value outside the range of the field's own width makes
\* setValue return a coercion error and leaves the field unchanged; it is
\* never stored truncated or wrapped.
C8_RangeChecked ==
    pc # "fileBind" =>
        \A i \in 1..Len(fields) :
            LET kind == FieldAt(shape, fields[i].Value).kind
                n == ParseInt(fileVars[fields[i].Name])
            IN
            (kind \in SignedKinds \cup UnsignedKinds /\ n.ok /\ ~InRange(kind, n.v))
                => /\ err.kind = "coercion"
                   /\ target[fields[i].Value] = target0[fields[i].Value]

====
